---------------------------- MODULE Spec2Model ----------------------------
(***************************************************************************)
(* Remote commands handler: an inbound batch of named commands is parsed,  *)
(* validated and transformed by MqttReader, handed to the registered       *)
(* callback (write_to_modbus), and written by ModbusClient to a coil or a  *)
(* holding register of the configured device map.                          *)
(***************************************************************************)
EXTENDS Integers, Sequences, FiniteSets, TLC

VARIABLES
    frontend,              \* the subscriber the process runs: "reader" (MqttReader)
                           \* or "client" (MqttClient)
    conn,                  \* ModbusTcpClient socket: "closed" or "open"
    on_message_callbacks,  \* MqttClient.on_message_callbacks
    subscriptable,         \* whether a CommandMessage of app.message supports
                           \* message["action"]; fixed by the class the service
                           \* is built with
    pc,                    \* "idle": waiting for a call; "returned": a call has ended
    last                   \* the call that has just ended: inputs, result, transport
                           \* calls it made, error events it published

vars == <<frontend, conn, on_message_callbacks, subscriptable, pc, last>>

(***************************************************************************)
(* Bounds of the model.                                                    *)
(***************************************************************************)
MaxBatch == 2       \* commands in one inbound batch
MaxCoils == 2       \* values in one write_coils call
MaxCallbacks == 2   \* callbacks registered with MqttClient
MaxTopics == 2      \* topics given to MqttClient.subscribe_topics
MaxSessions == 4    \* transport sessions opened for one inbound message

(***************************************************************************)
(* Values carried by a command: JSON booleans, integers and strings.       *)
(* k is the Python type, n the number (True = 1, False = 0; 0 for "abc").  *)
(***************************************************************************)
PyTrue == [k |-> "bool", n |-> 1]
PyFalse == [k |-> "bool", n |-> 0]
PyInt(i) == [k |-> "int", n |-> i]
PyStr == [k |-> "str", n |-> 0]

IntValues == {-1, 0, 5, 40000, 70000}

\* values given to the ModbusClient methods called directly
Values == {PyTrue, PyFalse, PyStr} \cup {PyInt(i) : i \in IntValues}

\* values carried by the commands of an inbound batch
BatchValues == {PyInt(40000), PyStr}

\* bool(value): numbers are true when non-zero, the string "abc" is true
PyBool(v) == IF v.k = "str" THEN TRUE ELSE v.n # 0

(***************************************************************************)
(* The device map (Configuration).                                         *)
(***************************************************************************)
Names == {"pump_1", "setpoint", "level", "dual", "bogus"}

BigNatural == [byte |-> "big", word |-> "natural"]
LittleNatural == [byte |-> "little", word |-> "natural"]
BigSwapped == [byte |-> "big", word |-> "swapped"]

Coils == [n \in {"pump_1", "dual"} |->
            IF n = "pump_1" THEN [address |-> <<10>>] ELSE [address |-> <<30>>]]

HoldingRegisters == [n \in {"setpoint", "level", "dual"} |->
    CASE n = "setpoint" -> [address |-> <<20>>, data_type |-> "uint16", memory_order |-> BigNatural]
      [] n = "level"    -> [address |-> <<21>>, data_type |-> "int16", memory_order |-> LittleNatural]
      [] n = "dual"     -> [address |-> <<40>>, data_type |-> "int32", memory_order |-> BigSwapped]]

\* names used by the commands of an inbound batch
BatchNames == {"pump_1", "setpoint", "bogus"}

HasCoil(name) == name \in DOMAIN Coils
HasRegister(name) == name \in DOMAIN HoldingRegisters
get_coil(name) == Coils[name]
get_holding_register(name) == HoldingRegisters[name]

(***************************************************************************)
(* PayloadBuilder: a value as big-endian two's-complement 16-bit words,    *)
(* bytes swapped within each word for little-endian byte order, the words  *)
(* reversed for swapped word order.                                        *)
(***************************************************************************)
Bits(data_type) == IF data_type \in {"int16", "uint16"} THEN 16 ELSE 32
\* the range of a data type; every number of the model is below 2^31, so
\* uint32 has no upper limit here
InRange(data_type, n) ==
    CASE data_type = "int16" -> n >= -32768 /\ n <= 32767
      [] data_type = "uint16" -> n >= 0 /\ n <= 65535
      [] data_type = "int32" -> TRUE
      [] data_type = "uint32" -> n >= 0
      [] data_type = "float32" -> TRUE

Fits(data_type, v) ==
    /\ data_type \in {"int16", "uint16", "int32", "uint32", "float32"}
    /\ v.k # "str"
    /\ InRange(data_type, v.n)

SwapBytes(w) == (w % 256) * 256 + (w \div 256)

Reverse(s) == [i \in 1..Len(s) |-> s[Len(s) + 1 - i]]

\* the integers a float32 holds exactly: 24 bits of significand
Exact(n) == n >= -16777215 /\ n <= 16777215

Abs(n) == IF n < 0 THEN 0 - n ELSE n

\* the exponent of a positive integer: 2^e <= a < 2^(e + 1)
Exponent(a) == CHOOSE e \in 0..23 : 2^e <= a /\ a < 2^(e + 1)

\* IEEE-754 single precision of an integer that float32 holds exactly: sign,
\* exponent + 127 in 8 bits, 23 bits of fraction; the high word, the low word
FloatWords(n) ==
    IF n = 0 THEN <<0, 0>>
    ELSE LET e == Exponent(Abs(n))
             fraction == (Abs(n) - 2^e) * 2^(23 - e)
         IN  <<(IF n < 0 THEN 32768 ELSE 0) + (e + 127) * 128 + fraction \div 65536,
               fraction % 65536>>

NaturalWords(data_type, n) ==
    CASE data_type = "float32" -> FloatWords(n)
      [] Bits(data_type) = 16 -> <<n % 65536>>
      [] OTHER -> <<(n \div 65536) % 65536, n % 65536>>

build(data_type, memory_order, v) ==
    LET w0 == NaturalWords(data_type, v.n)
        w1 == IF memory_order.byte = "little"
              THEN [i \in 1..Len(w0) |-> SwapBytes(w0[i])] ELSE w0
    IN  IF memory_order.word = "swapped" THEN Reverse(w1) ELSE w1

\* _build_register_payload without set_memory_order: the builder keeps its
\* default order
build_register_payload_default_order(holding_register, value) ==
    IF Fits(holding_register.data_type, value)
    THEN [exc |-> "none",
          words |-> build(holding_register.data_type, BigNatural, value)]
    ELSE [exc |-> "Exception", words |-> <<>>]

\* _build_register_payload: the words, or an exception of the builder
build_register_payload(holding_register, value) ==
    IF Fits(holding_register.data_type, value)
    THEN [exc |-> "none",
          words |-> build(holding_register.data_type, holding_register.memory_order, value)]
    ELSE [exc |-> "Exception", words |-> <<>>]

(***************************************************************************)
(* The environment of one call: the socket, the transport calls made so    *)
(* far, the error events published so far, and the position in the batch   *)
(* of the command being dispatched (0 outside a batch).                    *)
(***************************************************************************)
Machine(c) == [conn |-> c, calls |-> <<>>, events |-> <<>>, cmd |-> 0,
               error_handler |-> "ErrorHandler"]

\* What the transport does to one write call: "ok", "refuse" (connect raises
\* ModbusException), "nak" (the write raises ModbusException).
Fate == {"ok", "refuse", "nak"}

\* the fates of the coil write and of the register write of one command
NoFate == <<"ok", "ok">>

Call(m, call, addr, ok) ==
    [call |-> call, addr |-> addr, bit |-> FALSE, bits |-> <<>>, words |-> <<>>,
     unit |-> 0, ok |-> ok, cmd |-> m.cmd]

\* ModbusTcpClient.connect()
connect(m, fate) ==
    IF fate = "refuse"
    THEN [m EXCEPT !.calls = Append(@, Call(m, "connect", 0, FALSE))]
    ELSE [m EXCEPT !.calls = Append(@, Call(m, "connect", 0, TRUE)), !.conn = "open"]

\* ModbusTcpClient.close()
close(m) ==
    [m EXCEPT !.calls = Append(@, Call(m, "close", 0, TRUE)), !.conn = "closed"]

\* ModbusTcpClient.write_coil / write_coils / write_registers
issue(m, entry, fate) ==
    [m EXCEPT !.calls = Append(@, [entry EXCEPT !.ok = (fate # "nak")])]

(***************************************************************************)
(* ErrorHandler.publish: one error event per call, under the category      *)
(* given, or under the category of the exception given.                    *)
(***************************************************************************)
CategoryOf(exception) ==
    CASE exception = "ModbusException" -> "Transport"
      [] exception = "UnknownCommandError" -> "UnknownCommand"
      [] exception = "InvalidMessageError" -> "InvalidMessage"
      [] exception = "Exception" -> "InvalidMessage"
      [] OTHER -> "Unhandled"

publish(m, category) ==
    [m EXCEPT !.events = Append(@, [category |-> category, cmd |-> m.cmd])]

\* what stands in the place of the error handler of a ModbusClient: an
\* ErrorHandler, as __init__ declares, or the ModbusTcpClient that
\* main.setup_modbus_client passes as the second argument
ErrorHandlers == {"ErrorHandler", "ModbusTcpClient"}

(***************************************************************************)
(* ModbusClient.  Every method yields the environment after the call, the  *)
(* count returned and the exception raised ("none" when it returns).       *)
(***************************************************************************)
Returned(m, ret) == [m |-> m, ret |-> ret, exc |-> "none"]

\* Python's None, what a function that ends without a return statement
\* returns; every count is 0 or more
None == 0 - 1
Raised(m, exc) == [m |-> m, ret |-> 0, exc |-> exc]

\* self.error_handler.publish(ex), then raise exc: a ModbusTcpClient has no
\* publish, the AttributeError leaves the method in place of exc and nothing
\* is published
Report(m, category, exc) ==
    IF m.error_handler = "ErrorHandler" THEN Raised(publish(m, category), exc)
    ELSE Raised(m, "AttributeError")

\* write_coils that returns 1, the count of write_coil
write_coils_counts_one(m, name, value, fate) ==
    IF HasCoil(name)
    THEN LET m1 == connect(m, fate)
             m2 == issue(m1, [Call(m, "write_coils", get_coil(name).address[1], TRUE)
                                EXCEPT !.bits = value], fate)
         IN  CASE fate = "refuse" -> Report(m1, CategoryOf("ModbusException"), "ModbusClientError")
               [] fate = "nak" -> Report(m2, CategoryOf("ModbusException"), "ModbusClientError")
               [] OTHER -> Returned(close(m2), 1)
    ELSE Returned(m, 0)

\* write_coils that opens the connection before it looks the name up
write_coils_connect_first(m, name, value, fate) ==
    IF HasCoil(name)
    THEN LET m1 == connect(m, fate)
             m2 == issue(m1, [Call(m, "write_coils", get_coil(name).address[1], TRUE)
                                EXCEPT !.bits = value], fate)
         IN  CASE fate = "refuse" -> Report(m1, CategoryOf("ModbusException"), "ModbusClientError")
               [] fate = "nak" -> Report(m2, CategoryOf("ModbusException"), "ModbusClientError")
               [] OTHER -> Returned(close(m2), Len(value))
    ELSE Returned(connect(m, "ok"), 0)

write_coils(m, name, value, fate) ==
    IF HasCoil(name)
    THEN LET m1 == connect(m, fate)
             m2 == issue(m1, [Call(m, "write_coils", get_coil(name).address[1], TRUE)
                                EXCEPT !.bits = value], fate)
         IN  CASE fate = "refuse" -> Report(m1, CategoryOf("ModbusException"), "ModbusClientError")
               [] fate = "nak" -> Report(m2, CategoryOf("ModbusException"), "ModbusClientError")
               [] OTHER -> Returned(close(m2), Len(value))
    ELSE Returned(m, 0)

\* write_coil that writes one address too far
write_coil_off_by_one(m, name, value, fate) ==
    IF HasCoil(name)
    THEN LET m1 == connect(m, fate)
             m2 == issue(m1, [Call(m, "write_coil", get_coil(name).address[1] + 1, TRUE)
                                EXCEPT !.bit = value, !.unit = 1], fate)
         IN  CASE fate = "refuse" -> Report(m1, CategoryOf("ModbusException"), "ModbusClientError")
               [] fate = "nak" -> Report(m2, CategoryOf("ModbusException"), "ModbusClientError")
               [] OTHER -> Returned(close(m2), 1)
    ELSE Returned(m, 0)

\* write_coil that takes a failed write for a written coil
write_coil_unchecked(m, name, value, fate) ==
    IF HasCoil(name)
    THEN LET m1 == connect(m, fate)
             m2 == issue(m1, [Call(m, "write_coil", get_coil(name).address[1], TRUE)
                                EXCEPT !.bit = value, !.unit = 1], fate)
         IN  CASE fate = "refuse" -> Report(m1, CategoryOf("ModbusException"), "ModbusClientError")
               [] OTHER -> Returned(close(m2), 1)
    ELSE Returned(m, 0)

write_coil(m, name, value, fate) ==
    IF HasCoil(name)
    THEN LET m1 == connect(m, fate)
             m2 == issue(m1, [Call(m, "write_coil", get_coil(name).address[1], TRUE)
                                EXCEPT !.bit = value, !.unit = 1], fate)
         IN  CASE fate = "refuse" -> Report(m1, CategoryOf("ModbusException"), "ModbusClientError")
               [] fate = "nak" -> Report(m2, CategoryOf("ModbusException"), "ModbusClientError")
               [] OTHER -> Returned(close(m2), 1)
    ELSE Returned(m, 0)

\* write_register that writes the first word of the payload only
write_register_one_word(m, name, value, fate) ==
    IF HasRegister(name)
    THEN LET payload == build_register_payload(get_holding_register(name), value)
             m1 == connect(m, fate)
             m2 == issue(m1, [Call(m, "write_registers",
                                   get_holding_register(name).address[1], TRUE)
                                EXCEPT !.words = SubSeq(payload.words, 1, 1), !.unit = 1],
                         fate)
         IN  CASE payload.exc # "none" -> Report(m, CategoryOf(payload.exc), "InvalidMessageError")
               [] fate = "refuse" -> Report(m1, CategoryOf("ModbusException"), "ModbusClientError")
               [] fate = "nak" -> Report(m2, CategoryOf("ModbusException"), "ModbusClientError")
               [] OTHER -> Returned(close(m2), 1)
    ELSE Returned(m, 0)

\* write_register that goes on to the write when the payload cannot be built
write_register_unbuilt(m, name, value, fate) ==
    IF HasRegister(name)
    THEN LET payload == build_register_payload(get_holding_register(name), value)
             m0 == IF payload.exc # "none" THEN publish(m, CategoryOf(payload.exc)) ELSE m
             m1 == connect(m0, fate)
             m2 == issue(m1, [Call(m, "write_registers",
                                   get_holding_register(name).address[1], TRUE)
                                EXCEPT !.words = payload.words, !.unit = 1], fate)
         IN  CASE fate = "refuse" -> Report(m1, CategoryOf("ModbusException"), "ModbusClientError")
               [] fate = "nak" -> Report(m2, CategoryOf("ModbusException"), "ModbusClientError")
               [] OTHER -> Returned(close(m2), 1)
    ELSE Returned(m, 0)

write_register(m, name, value, fate) ==
    IF HasRegister(name)
    THEN LET payload == build_register_payload(get_holding_register(name), value)
             m1 == connect(m, fate)
             m2 == issue(m1, [Call(m, "write_registers",
                                   get_holding_register(name).address[1], TRUE)
                                EXCEPT !.words = payload.words, !.unit = 1], fate)
         IN  CASE payload.exc # "none" -> Report(m, CategoryOf(payload.exc), "InvalidMessageError")
               [] fate = "refuse" -> Report(m1, CategoryOf("ModbusException"), "ModbusClientError")
               [] fate = "nak" -> Report(m2, CategoryOf("ModbusException"), "ModbusClientError")
               [] OTHER -> Returned(close(m2), 1)
    ELSE Returned(m, 0)

\* write_command that tries the register only when the name is no coil
write_command_elif(m, name, value, fates) ==
    LET r1 == IF HasCoil(name) THEN write_coil(m, name, PyBool(value), fates[1])
              ELSE Returned(m, 0)
        r2 == IF ~HasCoil(name) /\ HasRegister(name)
              THEN write_register(r1.m, name, value, fates[2])
              ELSE Returned(r1.m, 0)
        sent == r1.ret + r2.ret
    IN  CASE r1.exc # "none" -> r1
          [] r2.exc # "none" -> r2
          [] sent = 0 -> Report(r2.m, CategoryOf("UnknownCommandError"), "UnknownCommandError")
          [] OTHER -> Returned(r2.m, None)

\* write_command that raises for an unknown name without publishing
write_command_silent(m, name, value, fates) ==
    LET r1 == IF HasCoil(name) THEN write_coil(m, name, PyBool(value), fates[1])
              ELSE Returned(m, 0)
        r2 == IF HasRegister(name) THEN write_register(r1.m, name, value, fates[2])
              ELSE Returned(r1.m, 0)
        sent == r1.ret + r2.ret
    IN  CASE r1.exc # "none" -> r1
          [] r2.exc # "none" -> r2
          [] sent = 0 -> Raised(r2.m, "UnknownCommandError")
          [] OTHER -> Returned(r2.m, None)

\* write_command with the two lookups in the other order: the register is
\* written before the coil
write_command_register_first(m, name, value, fates) ==
    LET r1 == IF HasRegister(name) THEN write_register(m, name, value, fates[2])
              ELSE Returned(m, 0)
        r2 == IF HasCoil(name) THEN write_coil(r1.m, name, PyBool(value), fates[1])
              ELSE Returned(r1.m, 0)
        sent == r1.ret + r2.ret
    IN  CASE r1.exc # "none" -> r1
          [] r2.exc # "none" -> r2
          [] sent = 0 -> Report(r2.m, CategoryOf("UnknownCommandError"), "UnknownCommandError")
          [] OTHER -> Returned(r2.m, None)

\* fates[1] is what the transport does to the coil write, fates[2] to the
\* register write
write_command(m, name, value, fates) ==
    LET r1 == IF HasCoil(name) THEN write_coil(m, name, PyBool(value), fates[1])
              ELSE Returned(m, 0)
        r2 == IF HasRegister(name) THEN write_register(r1.m, name, value, fates[2])
              ELSE Returned(r1.m, 0)
        sent == r1.ret + r2.ret
    IN  CASE r1.exc # "none" -> r1
          [] r2.exc # "none" -> r2
          [] sent = 0 -> Report(r2.m, CategoryOf("UnknownCommandError"), "UnknownCommandError")
          [] OTHER -> Returned(r2.m, None)

(***************************************************************************)
(* Inbound messages.  A payload is undecodable bytes, text that is not     *)
(* JSON, or a JSON list of command objects; keys tells which of the keys   *)
(* "action" and "value" a command object has.                              *)
(***************************************************************************)
Item(action, value, keys) == [action |-> action, value |-> value, keys |-> keys]

Items == {Item(a, v, "av") : a \in BatchNames, v \in BatchValues}
            \cup {Item("pump_1", PyTrue, "a"), Item("pump_1", PyTrue, "v")}

RECURSIVE SeqsUpTo(_, _)
SeqsUpTo(S, n) ==
    IF n = 0 THEN {<<>>}
    ELSE LET shorter == SeqsUpTo(S, n - 1)
         IN  shorter \cup {Append(s, x) : s \in {t \in shorter : Len(t) = n - 1}, x \in S}

Undecodable == [form |-> "undecodable", items |-> <<>>]
NotJson == [form |-> "notjson", items |-> <<>>]
Batch(items) == [form |-> "batch", items |-> items]

Payloads == {Undecodable, NotJson} \cup {Batch(items) : items \in SeqsUpTo(Items, MaxBatch)}

\* _decode_message: message.payload.decode()
decode_message(payload) ==
    IF payload.form = "undecodable" THEN "UnicodeDecodeError" ELSE "none"

\* CommandMessageList.read
read(payload) == IF payload.form = "notjson" THEN "InvalidMessageError" ELSE "none"

\* CommandMessage.validate
validate(item) ==
    IF HasCoil(item.action) \/ HasRegister(item.action) THEN "none"
    ELSE "UnknownCommandError"

\* CommandMessage.transform: the exception raised, and the typed value
transform(item) ==
    CASE HasCoil(item.action) ->
            [exc |-> "none", value |-> IF PyBool(item.value) THEN PyTrue ELSE PyFalse]
      [] Fits(get_holding_register(item.action).data_type, item.value) ->
            [exc |-> "none", value |-> item.value]
      [] OTHER -> [exc |-> "InvalidMessageError", value |-> item.value]

\* one round of the loop of lines 75-81: the exception it raises
examine(item) ==
    CASE item.keys # "av" -> "KeyError"
      [] validate(item) # "none" -> validate(item)
      [] OTHER -> transform(item).exc

\* lines 75-81: the commands appended to msg_obj_list, the exception that
\* ended the loop, and the number of items the loop has looked at
RECURSIVE Examine(_, _, _)
Examine(items, i, msg_obj_list) ==
    IF i > Len(items)
    THEN [msg_obj_list |-> msg_obj_list, exc |-> "none", examined |-> Len(items)]
    ELSE IF examine(items[i]) # "none"
         THEN [msg_obj_list |-> msg_obj_list, exc |-> examine(items[i]), examined |-> i]
         ELSE Examine(items, i + 1,
                      Append(msg_obj_list,
                             [action |-> items[i].action,
                              value |-> transform(items[i]).value]))

\* the command objects as the callbacks receive them: instances of a
\* CommandMessage class that supports subscripting (mapping) or has the
\* attributes action and value only
CommandMessage(msg_obj, mapping) ==
    [action |-> msg_obj.action, value |-> msg_obj.value, subscriptable |-> mapping]

CommandMessages(msg_obj_list, mapping) ==
    [i \in 1..Len(msg_obj_list) |-> CommandMessage(msg_obj_list[i], mapping)]

(***************************************************************************)
(* The callback registered with the subscriber, and the callback of the    *)
(* tests that raises on a message that is not JSON.                        *)
(***************************************************************************)
Callbacks == {"write_to_modbus", "read_json"}

\* main.write_to_modbus on a command: message["action"] raises TypeError on
\* an object that does not support subscripting, before write_command is
\* called; the ModbusClient it is bound to is the one of
\* main.setup_modbus_client, whose error handler is a ModbusTcpClient; every
\* exception is caught and logged, and the function ends without a return
\* statement
write_to_modbus(m, message, fates) ==
    IF ~message.subscriptable THEN Returned(m, None)
    ELSE Returned([write_command([m EXCEPT !.error_handler = "ModbusTcpClient"],
                                 message.action, message.value, fates).m
                     EXCEPT !.error_handler = m.error_handler],
                  None)

\* a callback of MqttReader on a command: write_to_modbus writes it;
\* read_json gives json.loads an object that is no text, which raises TypeError
reader_callback(f, m, msg_obj, fates) ==
    CASE f = "write_to_modbus" -> write_to_modbus(m, msg_obj, fates)
      [] f = "read_json" -> Raised(m, "TypeError")

\* lines 93-94: callback(msg_obj) for every registered callback, from the j-th
\* on; r is what the j-th callback did, fates[j] what the transport does to
\* the writes of the j-th callback
RECURSIVE CallEach(_, _, _, _, _), CallNext(_, _, _, _, _)
CallNext(r, callbacks, msg_obj, j, fates) ==
    IF r.exc # "none" THEN r ELSE CallEach(callbacks, r.m, msg_obj, j + 1, fates)

CallEach(callbacks, m, msg_obj, j, fates) ==
    IF j > Len(callbacks) THEN Returned(m, None)
    ELSE CallNext(reader_callback(callbacks[j], m, msg_obj, fates[j]),
                  callbacks, msg_obj, j, fates)

\* the commands handed to a callback so far, the i-th included
Handed(callbacks, dispatched, i) ==
    IF callbacks = <<>> THEN dispatched ELSE Append(dispatched, i)

\* lines 92-94: the commands of msg_obj_list from the i-th on, in order; r is
\* what the callbacks did with the i-th
RECURSIVE Dispatch(_, _, _, _, _, _), DispatchNext(_, _, _, _, _, _)
DispatchNext(r, callbacks, msg_obj_list, i, fates, dispatched) ==
    IF r.exc # "none"
    THEN [m |-> r.m, exc |-> r.exc, dispatched |-> Handed(callbacks, dispatched, i)]
    ELSE Dispatch(callbacks, r.m, msg_obj_list, i + 1, fates,
                  Handed(callbacks, dispatched, i))

\* Dispatch that takes the commands from the last to the first
Dispatch_reversed(callbacks, m, msg_obj_list, i, fates, dispatched) ==
    IF i > Len(msg_obj_list) THEN [m |-> m, exc |-> "none", dispatched |-> dispatched]
    ELSE DispatchNext(CallEach(callbacks, [m EXCEPT !.cmd = Len(msg_obj_list) + 1 - i],
                               msg_obj_list[Len(msg_obj_list) + 1 - i], 1,
                               fates[Len(msg_obj_list) + 1 - i]),
                      callbacks, msg_obj_list, i, fates, dispatched)

Dispatch(callbacks, m, msg_obj_list, i, fates, dispatched) ==
    IF i > Len(msg_obj_list) THEN [m |-> m, exc |-> "none", dispatched |-> dispatched]
    ELSE DispatchNext(CallEach(callbacks, [m EXCEPT !.cmd = i], msg_obj_list[i], 1,
                               fates[i]),
                      callbacks, msg_obj_list, i, fates, dispatched)

Outcome(m, exc, examined, dispatched) ==
    [m |-> [m EXCEPT !.cmd = 0], exc |-> exc, examined |-> examined,
     dispatched |-> dispatched]

\* the topic of an inbound message as bytes: paho decodes it when
\* message.topic is read
MessageTopics == {"command_topic", "not UTF-8"}

\* lines 72-104: e is what the loop of lines 75-81 did, d what the loop of
\* lines 92-94 does
Handlers(m, payload, e, d) ==
    CASE decode_message(payload) # "none" ->
            Outcome(publish(m, "Unhandled"), "none", 0, <<>>)
      [] read(payload) = "InvalidMessageError" ->
            Outcome(publish(m, "InvalidMessage"), "none", 0, <<>>)
      [] e.exc = "InvalidMessageError" ->
            Outcome(publish(m, "InvalidMessage"), "none", e.examined, <<>>)
      [] e.exc = "UnknownCommandError" ->
            Outcome(publish(m, "UnknownCommand"), "none", e.examined, <<>>)
      [] e.exc # "none" ->
            Outcome(publish(m, "Unhandled"), "none", e.examined, <<>>)
      [] d.exc # "none" ->
            Outcome(publish(d.m, "Unhandled"), "none", e.examined, d.dispatched)
      [] OTHER -> Outcome(d.m, "none", e.examined, d.dispatched)

\* inner with every command dispatched as soon as it has been validated, so
\* that the commands before a failing item are written
inner_eager(callbacks, m, mapping, topic, payload, fates) ==
    Handlers(Dispatch(callbacks, m,
                      CommandMessages(Examine(payload.items, 1, <<>>).msg_obj_list, mapping), 1,
                      [i \in 1..Len(payload.items) |->
                            [j \in 1..Len(callbacks) |-> NoFate]], <<>>).m,
             payload, Examine(payload.items, 1, <<>>),
             Dispatch(callbacks, m,
                      CommandMessages(Examine(payload.items, 1, <<>>).msg_obj_list, mapping), 1,
                      fates, <<>>))

\* MqttReader._on_message.inner.  Line 69 reads message.topic inside the outer
\* try: for a topic that is not UTF-8 it raises UnicodeDecodeError before
\* msg_topic is bound, and the handler of line 99 raises UnboundLocalError
\* when it formats msg_topic at line 100, before it publishes
inner(callbacks, m, mapping, topic, payload, fates) ==
    IF topic = "not UTF-8" THEN Outcome(m, "UnboundLocalError", 0, <<>>)
    ELSE Handlers(m, payload, Examine(payload.items, 1, <<>>),
                  Dispatch(callbacks, m,
                           CommandMessages(Examine(payload.items, 1, <<>>).msg_obj_list, mapping),
                           1, fates, <<>>))

\* a callback of MqttClient on the decoded text of a message: read_json raises
\* on text that is not JSON; write_to_modbus subscripts the text inside its
\* try block, and the TypeError is caught and logged
client_callback(f, m, payload) ==
    CASE f = "read_json" /\ payload.form = "notjson" -> Raised(m, "JSONDecodeError")
      [] OTHER -> Returned(m, None)

\* MqttClient._on_message.inner, lines 47-48: the callbacks from the j-th on
RECURSIVE Deliver(_, _, _, _, _)
Deliver(callbacks, m, payload, j, delivered) ==
    IF j > Len(callbacks) THEN [m |-> m, exc |-> "none", delivered |-> delivered]
    ELSE LET r == client_callback(callbacks[j], m, payload)
         IN  IF r.exc # "none"
             THEN [m |-> r.m, exc |-> r.exc, delivered |-> Append(delivered, callbacks[j])]
             ELSE Deliver(callbacks, r.m, payload, j + 1, Append(delivered, callbacks[j]))

\* MqttClient._on_message.inner
client_inner(callbacks, m, payload) ==
    IF decode_message(payload) # "none"
    THEN [m |-> m, exc |-> decode_message(payload), delivered |-> <<>>]
    ELSE Deliver(callbacks, m, payload, 1, <<>>)

(***************************************************************************)
(* MqttWriter, the publisher of the error events.  The sink (the broker)   *)
(* is "up" or "down"; the connect of the MQTT client raises OSError when    *)
(* it is down.  Every method yields the number of messages handed to the   *)
(* client and the exception raised.                                        *)
(***************************************************************************)
Sinks == {"up", "down"}

\* MqttWriter.connect: True, or OSError raised from the OSError of the client
writer_connect(sink) ==
    IF sink = "up" THEN [ret |-> TRUE, exc |-> "none"]
    ELSE [ret |-> FALSE, exc |-> "OSError"]

\* MqttWriter.publish
writer_publish(sink) ==
    CASE writer_connect(sink).exc # "none" -> [sent |-> 0, exc |-> writer_connect(sink).exc]
      [] writer_connect(sink).ret -> [sent |-> 1, exc |-> "none"]
      [] OTHER -> [sent |-> 0, exc |-> "none"]

(***************************************************************************)
(* The connect callback of the subscribers: the topics subscribed to.      *)
(***************************************************************************)
\* the topics of the tests, and MqttReader._topics
Topics == {"foo", "baa"}
reader_topics == <<"command_topic">>

\* reason codes of the broker: 0 is success
ReasonCodes == {0, 1, 5}

\* MqttClient._on_connect.inner and MqttReader._on_connect.inner
on_connect(topics, reason_code) ==
    IF reason_code = 0 THEN topics ELSE <<>>

(***************************************************************************)
(* What the transport may do to the writes of a command and of a batch.    *)
(***************************************************************************)
FatesOf(name) ==
    {<<f, "ok">> : f \in IF HasCoil(name) THEN Fate ELSE {"ok"}}
        \cup {<<"ok", f>> : f \in IF HasRegister(name) THEN Fate ELSE {"ok"}}

\* a callback of the reader is reached by the i-th command when no callback
\* before it raises, on this command or on an earlier one
Raises(f) == f = "read_json"

Reached(callbacks, i, j) ==
    /\ \A k \in 1..j - 1 : ~Raises(callbacks[k])
    /\ i > 1 => \A k \in 1..Len(callbacks) : ~Raises(callbacks[k])

\* what the transport may do to the writes that the callbacks, up to the j-th,
\* make for the i-th command: every call of write_to_modbus is a session
\* of its own (connect, write, close)
RECURSIVE CallbackFates(_, _, _, _, _)
CallbackFates(callbacks, mapping, msg_obj, i, j) ==
    IF j = 0 THEN {<<>>}
    ELSE {Append(s, f) :
            s \in CallbackFates(callbacks, mapping, msg_obj, i, j - 1),
            f \in IF mapping /\ callbacks[j] = "write_to_modbus" /\ Reached(callbacks, i, j)
                  THEN FatesOf(msg_obj.action) ELSE {NoFate}}

\* the same for the commands of msg_obj_list up to the n-th
RECURSIVE FateSeqs(_, _, _, _)
FateSeqs(callbacks, mapping, msg_obj_list, n) ==
    IF n = 0 THEN {<<>>}
    ELSE {Append(s, f) :
            s \in FateSeqs(callbacks, mapping, msg_obj_list, n - 1),
            f \in CallbackFates(callbacks, mapping, msg_obj_list[n], n, Len(callbacks))}

\* the calls of write_to_modbus that reach write_command while one inbound
\* message is handled
Sessions(callbacks, mapping, topic, payload) ==
    IF mapping /\ topic = "command_topic" /\ payload.form = "batch"
               /\ Examine(payload.items, 1, <<>>).exc = "none"
    THEN Cardinality({ij \in (1..Len(payload.items)) \X (1..Len(callbacks)) :
                        /\ callbacks[ij[2]] = "write_to_modbus"
                        /\ Reached(callbacks, ij[1], ij[2])})
    ELSE 0

\* the transport is reached only by the commands of a batch that passed the
\* loop of lines 75-81
FatesFor(callbacks, mapping, topic, payload) ==
    LET e == Examine(payload.items, 1, <<>>)
    IN  IF topic = "command_topic" /\ payload.form = "batch" /\ e.exc = "none"
        THEN FateSeqs(callbacks, mapping, e.msg_obj_list, Len(e.msg_obj_list))
        ELSE {[i \in 1..Len(payload.items) |-> [k \in 1..Len(callbacks) |-> NoFate]]}

(***************************************************************************)
(* The state machine.                                                      *)
(***************************************************************************)
NoCall ==
    [op |-> "none", name |-> "", value |-> PyFalse, bits |-> <<>>,
     payload |-> Batch(<<>>), fates |-> <<>>, conn0 |-> "closed",
     ret |-> 0, exc |-> "none", calls |-> <<>>, events |-> <<>>,
     examined |-> 0, dispatched |-> <<>>, delivered |-> <<>>,
     sink |-> "up", sent |-> 0,
     data_type |-> "", memory_order |-> BigNatural, words |-> <<>>,
     topics |-> <<>>, rc |-> 0, subscribed |-> <<>>, topic |-> "command_topic"]

Init ==
    /\ frontend \in {"reader", "client"}
    /\ conn = "closed"
    /\ on_message_callbacks = <<>>
    /\ subscriptable \in BOOLEAN
    /\ pc = "idle"
    /\ last = NoCall

\* the end of a call of a ModbusClient method
Ended(op, name, value, bits, fates, r) ==
    /\ conn' = r.m.conn
    /\ pc' = "returned"
    /\ last' = [NoCall EXCEPT !.op = op, !.name = name, !.value = value, !.bits = bits,
                              !.fates = fates, !.conn0 = conn, !.ret = r.ret,
                              !.exc = r.exc, !.calls = r.m.calls, !.events = r.m.events]
    /\ UNCHANGED <<frontend, on_message_callbacks, subscriptable>>

\* ModbusClient.write_coils is called
WriteCoils ==
    /\ pc = "idle"
    /\ \E name \in Names, bits \in SeqsUpTo(BOOLEAN, MaxCoils), fate \in Fate :
            Ended("write_coils", name, PyFalse, bits, <<<<fate, "ok">>>>,
                  write_coils(Machine(conn), name, bits, fate))

\* ModbusClient.write_coil is called
WriteCoil ==
    /\ pc = "idle"
    /\ \E name \in Names, bit \in BOOLEAN, fate \in Fate :
            Ended("write_coil", name, IF bit THEN PyTrue ELSE PyFalse, <<>>,
                  <<<<fate, "ok">>>>, write_coil(Machine(conn), name, bit, fate))

\* ModbusClient.write_register is called
WriteRegister ==
    /\ pc = "idle"
    /\ \E name \in Names, value \in Values, fate \in Fate :
            Ended("write_register", name, value, <<>>, <<<<"ok", fate>>>>,
                  write_register(Machine(conn), name, value, fate))

\* ModbusClient.write_command is called
WriteCommand ==
    /\ pc = "idle"
    /\ \E name \in Names, value \in Values :
            \E fates \in FatesOf(name) :
                Ended("write_command", name, value, <<>>, <<fates>>,
                      write_command(Machine(conn), name, value, fates))

\* MqttReader: one inbound message is handled.  The messages drawn are those
\* for which write_to_modbus opens at most MaxSessions transport sessions
ReaderOnMessage ==
    /\ pc = "idle"
    /\ frontend = "reader"
    /\ \E topic \in MessageTopics, payload \in Payloads :
        /\ Sessions(on_message_callbacks, subscriptable, topic, payload) <= MaxSessions
        /\ \E fates \in FatesFor(on_message_callbacks, subscriptable, topic, payload) :
                LET r == inner(on_message_callbacks, Machine(conn), subscriptable, topic,
                               payload, fates)
                IN  /\ conn' = r.m.conn
                    /\ last' = [NoCall EXCEPT !.op = "reader_on_message",
                                    !.topic = topic,
                                    !.payload = payload, !.fates = fates,
                                    !.conn0 = conn, !.exc = r.exc,
                                    !.calls = r.m.calls, !.events = r.m.events,
                                    !.examined = r.examined,
                                    !.dispatched = r.dispatched]
    /\ pc' = "returned"
    /\ UNCHANGED <<frontend, on_message_callbacks, subscriptable>>

\* MqttReader.add_message_callback and MqttClient.add_message_callback
AddMessageCallback ==
    /\ pc = "idle"
    /\ Len(on_message_callbacks) < MaxCallbacks
    /\ \E f \in Callbacks : on_message_callbacks' = Append(on_message_callbacks, f)
    /\ UNCHANGED <<frontend, conn, subscriptable, pc, last>>

\* MqttClient: one inbound message is handled
ClientOnMessage ==
    /\ pc = "idle"
    /\ frontend = "client"
    /\ \E payload \in Payloads :
            LET r == client_inner(on_message_callbacks, Machine(conn), payload)
            IN  /\ conn' = r.m.conn
                /\ last' = [NoCall EXCEPT !.op = "client_on_message",
                                !.payload = payload, !.conn0 = conn, !.exc = r.exc,
                                !.calls = r.m.calls, !.events = r.m.events,
                                !.delivered = r.delivered]
    /\ pc' = "returned"
    /\ UNCHANGED <<frontend, on_message_callbacks, subscriptable>>

\* the data types and memory orders of a holding register, and the numbers
\* given to the payload builder: the ends of the ranges and numbers between
DataTypes == {"int16", "uint16", "int32", "uint32", "float32"}
MemoryOrders == [byte : {"big", "little"}, word : {"natural", "swapped"}]
CodecValues == {-2147483647 - 1, -16777215, -70000, -32769, -32768, -258, -1, 0, 1, 3,
                258, 32767, 32768, 40000, 65535, 65536, 70000, 16777215, 2147483647}

\* _build_register_payload is called; a float32 register is given the
\* numbers that float32 holds exactly
BuildRegisterPayload ==
    /\ pc = "idle"
    /\ \E data_type \in DataTypes, memory_order \in MemoryOrders, n \in CodecValues :
            /\ data_type = "float32" => Exact(n)
            /\ LET r == build_register_payload(
                            [address |-> <<0>>, data_type |-> data_type,
                             memory_order |-> memory_order], PyInt(n))
               IN  last' = [NoCall EXCEPT !.op = "build_register_payload",
                                !.data_type = data_type, !.memory_order = memory_order,
                                !.value = PyInt(n), !.conn0 = conn,
                                !.exc = r.exc, !.words = r.words]
    /\ pc' = "returned"
    /\ UNCHANGED <<frontend, conn, on_message_callbacks, subscriptable>>

\* the end of a connect callback
Connected(topics, rc) ==
    /\ last' = [NoCall EXCEPT !.op = "on_connect", !.topics = topics, !.rc = rc,
                              !.conn0 = conn, !.subscribed = on_connect(topics, rc)]
    /\ pc' = "returned"
    /\ UNCHANGED <<frontend, conn, on_message_callbacks, subscriptable>>

\* MqttClient: the connect callback fires; topics is what subscribe_topics
\* has set before run()
ClientOnConnect ==
    /\ pc = "idle"
    /\ frontend = "client"
    /\ \E topics \in SeqsUpTo(Topics, MaxTopics), rc \in ReasonCodes : Connected(topics, rc)

\* MqttReader: the connect callback fires
ReaderOnConnect ==
    /\ pc = "idle"
    /\ frontend = "reader"
    /\ \E rc \in ReasonCodes : Connected(reader_topics, rc)

\* MqttWriter.publish is called
WriterPublish ==
    /\ pc = "idle"
    /\ \E sink \in Sinks :
            last' = [NoCall EXCEPT !.op = "writer_publish", !.sink = sink, !.conn0 = conn,
                                   !.sent = writer_publish(sink).sent,
                                   !.exc = writer_publish(sink).exc]
    /\ pc' = "returned"
    /\ UNCHANGED <<frontend, conn, on_message_callbacks, subscriptable>>

\* the caller takes the result; the process waits for the next call
Return ==
    /\ pc = "returned"
    /\ pc' = "idle"
    /\ last' = NoCall
    /\ UNCHANGED <<frontend, conn, on_message_callbacks, subscriptable>>

Next ==
    \/ WriteCoils
    \/ WriteCoil
    \/ WriteRegister
    \/ WriteCommand
    \/ ReaderOnMessage
    \/ AddMessageCallback
    \/ ClientOnMessage
    \/ ClientOnConnect
    \/ ReaderOnConnect
    \/ WriterPublish
    \/ BuildRegisterPayload
    \/ Return

Spec == Init /\ [][Next]_vars

(***************************************************************************)
(* Properties.                                                             *)
(***************************************************************************)
IsWrite(c) == c.call \in {"write_coil", "write_coils", "write_registers"}
Writes(calls) == SelectSeq(calls, IsWrite)

Handled == pc = "returned" /\ last.op = "reader_on_message"
WellFormed(payload) ==
    /\ payload.form = "batch"
    /\ \A i \in 1..Len(payload.items) : payload.items[i].keys = "av"

\* the item does not pass validate() and transform()
Fails(item) == validate(item) # "none" \/ transform(item).exc # "none"

FirstFailing(items) ==
    CHOOSE i \in 1..Len(items) : Fails(items[i]) /\ \A j \in 1..(i - 1) : ~Fails(items[j])

\* C1: a well-formed batch with an item that fails validate() or transform()
\* dispatches no command at all, not even those validated before the failing
\* item, issues no transport call, and the items after the first failing one
\* are never examined.
C1_FailingItemAbortsBatch ==
    (/\ Handled
     /\ WellFormed(last.payload)
     /\ \E i \in 1..Len(last.payload.items) : Fails(last.payload.items[i]))
    => /\ last.dispatched = <<>>
       /\ last.calls = <<>>
       /\ last.examined <= FirstFailing(last.payload.items)

\* a batch whose first item is valid and whose second item is unknown was handled
C1_Witness ==
    /\ Handled
    /\ on_message_callbacks = <<"write_to_modbus">>
    /\ WellFormed(last.payload)
    /\ Len(last.payload.items) = 2
    /\ ~Fails(last.payload.items[1])
    /\ Fails(last.payload.items[2])
    /\ last.examined = 2
    /\ last.dispatched = <<>>

OnMessageReturned == pc = "returned" /\ last.op \in {"reader_on_message", "client_on_message"}

\* C2: no inbound message and no callback can make the on_message handler
\* of the subscriber propagate an exception into the processing loop.
C2_HandlerNeverPropagates ==
    OnMessageReturned => last.exc = "none"

Called(op) == pc = "returned" /\ last.op = op
Unknown(name) == ~HasCoil(name) /\ ~HasRegister(name)

\* C3: write_command for a name that is neither a coil nor a holding
\* register raises UnknownCommandError, makes no transport call and publishes
\* exactly one error event, of category UnknownCommand.
C3_UnknownCommandPublishedOnce ==
    (Called("write_command") /\ Unknown(last.name))
    => /\ last.exc = "UnknownCommandError"
       /\ last.calls = <<>>
       /\ Len(last.events) = 1
       /\ last.events[1].category = "UnknownCommand"

\* write_command("bogus", 5) has raised
C3_Witness ==
    /\ Called("write_command")
    /\ last.name = "bogus"
    /\ last.value = PyInt(5)
    /\ last.exc = "UnknownCommandError"
    /\ Len(last.events) = 1

WriteOps == {"write_coil", "write_coils", "write_register"}

\* the call of a write method reached the transport: the target exists and,
\* for a register, the value can be encoded
ReachesTransport ==
    /\ pc = "returned"
    /\ \/ last.op \in {"write_coil", "write_coils"} /\ HasCoil(last.name)
       \/ /\ last.op = "write_register"
          /\ HasRegister(last.name)
          /\ Fits(get_holding_register(last.name).data_type, last.value)

TransportFate == IF last.op = "write_register" THEN last.fates[1][2] ELSE last.fates[1][1]

\* C4: a transport failure during write_coil, write_coils or write_register
\* (at connect or at the write) is published to the error reporter and
\* re-raised as ModbusClientError: the call never returns a count and never
\* raises another exception.
C4_TransportFailureReraised ==
    (ReachesTransport /\ TransportFate # "ok")
    => /\ last.exc = "ModbusClientError"
       /\ Len(last.events) = 1

\* write_coil on a configured coil, the write refused by the device
C4_Witness ==
    /\ Called("write_coil")
    /\ last.name = "pump_1"
    /\ last.fates[1][1] = "nak"
    /\ last.exc = "ModbusClientError"
    /\ Len(last.calls) = 2
    /\ ~last.calls[2].ok

\* the topic of the message handled could be read
TopicDecodes == last.topic = "command_topic"

\* a batch that passed validation and transformation was handled
Dispatched == Handled /\ TopicDecodes /\ last.payload.form = "batch"
                /\ Examine(last.payload.items, 1, <<>>).exc = "none"

\* write_to_modbus is the one callback registered with the reader
OneWriter == on_message_callbacks = <<"write_to_modbus">>

\* a write of the i-th command of the batch failed
CommandFailed(i) == \E k \in 1..Len(last.calls) : last.calls[k].cmd = i /\ ~last.calls[k].ok

EventsOf(i) == SelectSeq(last.events, LAMBDA e : e.cmd = i)
FailedCallsOf(i) == SelectSeq(last.calls, LAMBDA c : c.cmd = i /\ ~c.ok)
WritesAt(i, addr) == SelectSeq(last.calls, LAMBDA c : c.cmd = i /\ IsWrite(c) /\ c.addr = addr)

\* C5: when the dispatch of a command of a validated batch fails, the
\* failure is published and no later command of the batch is dispatched.
C5_FailedDispatchAbandonsBatch ==
    (Dispatched /\ OneWriter) =>
        \A i \in 1..Len(last.payload.items) :
            CommandFailed(i) =>
                /\ EventsOf(i) # <<>>
                /\ \A k \in 1..Len(last.dispatched) : last.dispatched[k] <= i

\* C6: a command whose write fails at the transport is attempted once and
\* reported once: one failed transport call, no address written twice, and
\* exactly one error event for that command.
C6_FailureReportedOnceNoRetry ==
    /\ (Handled /\ OneWriter) =>
        \A i \in 1..Len(last.payload.items) :
            CommandFailed(i) =>
                /\ Len(FailedCallsOf(i)) = 1
                /\ \A k \in 1..Len(last.calls) :
                        Len(WritesAt(i, last.calls[k].addr)) <= 1
                /\ Len(EventsOf(i)) = 1
    /\ (ReachesTransport /\ TransportFate # "ok") =>
            /\ Len(Writes(last.calls)) <= 1
            /\ Len(last.events) = 1

Configured ==
    \/ last.op \in {"write_coil", "write_coils"} /\ HasCoil(last.name)
    \/ last.op = "write_register" /\ HasRegister(last.name)

\* C7: after a write call on a configured target has completed, by returning
\* or by raising, the connection is closed and at most one write was issued.
C7_ConnectionClosedAfterWrite ==
    (pc = "returned" /\ last.op \in WriteOps /\ Configured)
    => /\ conn = "closed"
       /\ Len(Writes(last.calls)) <= 1

\* C8: write_command raises UnknownCommandError exactly when the name is
\* neither a coil nor a holding register; for a name that is both, with the
\* transport working, the coil is written with bool(value), then the
\* register with value, and the call returns (None: the method has no return
\* statement).
C8_UnknownIffNeitherKind ==
    Called("write_command") =>
        /\ (last.exc = "UnknownCommandError") <=> Unknown(last.name)
        /\ (/\ HasCoil(last.name)
            /\ HasRegister(last.name)
            /\ last.fates[1] = NoFate
            /\ Fits(get_holding_register(last.name).data_type, last.value))
            => /\ last.exc = "none"
               /\ last.ret = None
               /\ Len(Writes(last.calls)) = 2
               /\ Writes(last.calls)[1].call = "write_coil"
               /\ Writes(last.calls)[1].addr = get_coil(last.name).address[1]
               /\ Writes(last.calls)[1].bit = PyBool(last.value)
               /\ Writes(last.calls)[2].call = "write_registers"
               /\ Writes(last.calls)[2].addr = get_holding_register(last.name).address[1]
               /\ Writes(last.calls)[2].words =
                    build_register_payload(get_holding_register(last.name), last.value).words

\* write_command("dual", 5) has written the coil and the register
C8_Witness ==
    /\ Called("write_command")
    /\ last.name = "dual"
    /\ last.value = PyInt(5)
    /\ last.exc = "none"
    /\ Len(Writes(last.calls)) = 2

\* C9: write_coil on a configured coil, the transport working, returns 1
\* and issues exactly one coil write, at the base address of the coil and
\* with the value given, and no register write.
C9_WriteCoilOneWrite ==
    (Called("write_coil") /\ HasCoil(last.name) /\ last.fates[1][1] = "ok")
    => /\ last.exc = "none"
       /\ last.ret = 1
       /\ Len(Writes(last.calls)) = 1
       /\ Writes(last.calls)[1].call = "write_coil"
       /\ Writes(last.calls)[1].addr = get_coil(last.name).address[1]
       /\ Writes(last.calls)[1].bit = (last.value = PyTrue)

\* write_coil("pump_1", True) has returned 1 after a write at address 10
C9_Witness ==
    /\ Called("write_coil")
    /\ last.name = "pump_1"
    /\ last.value = PyTrue
    /\ last.ret = 1
    /\ Writes(last.calls)[1].addr = 10
    /\ Writes(last.calls)[1].bit

\* C10: write_register on a configured register with a value its data type
\* holds, the transport working, returns 1 and issues exactly one
\* multi-register write at the base address whose payload is the word
\* sequence of the value: one word for a 16-bit type, two for a 32-bit type.
C10_WriteRegisterPayload ==
    (/\ Called("write_register")
     /\ HasRegister(last.name)
     /\ Fits(get_holding_register(last.name).data_type, last.value)
     /\ last.fates[1][2] = "ok")
    => /\ last.exc = "none"
       /\ last.ret = 1
       /\ Len(Writes(last.calls)) = 1
       /\ Writes(last.calls)[1].call = "write_registers"
       /\ Writes(last.calls)[1].addr = get_holding_register(last.name).address[1]
       /\ Writes(last.calls)[1].words =
            build_register_payload(get_holding_register(last.name), last.value).words
       /\ Len(Writes(last.calls)[1].words) * 16 =
            Bits(get_holding_register(last.name).data_type)
       /\ (last.name = "dual" /\ last.value = PyInt(70000))
            => Writes(last.calls)[1].words = <<4464, 1>>
       /\ (last.name = "level" /\ last.value = PyInt(-1))
            => Writes(last.calls)[1].words = <<65535>>

\* write_register("dual", 70000) has written two words at address 40
C10_Witness ==
    /\ Called("write_register")
    /\ last.name = "dual"
    /\ last.value = PyInt(70000)
    /\ last.ret = 1
    /\ Writes(last.calls)[1].addr = 40
    /\ Len(Writes(last.calls)[1].words) = 2
\* C11: write_coil, write_coils and write_register for a name without a
\* target of the matching kind return 0 and do nothing: no transport call
\* (so no connection is opened and nothing is written), no error event, no
\* exception, and the connection is as it was.
C11_NoTargetNoEffect ==
    (pc = "returned" /\ last.op \in WriteOps /\ ~Configured)
    => /\ last.ret = 0
       /\ last.exc = "none"
       /\ last.calls = <<>>
       /\ last.events = <<>>
       /\ conn = last.conn0

\* write_coils on the name of a holding register has returned 0
C11_Witness ==
    /\ Called("write_coils")
    /\ last.name = "setpoint"
    /\ last.bits = <<TRUE, FALSE>>
    /\ last.ret = 0
    /\ last.calls = <<>>

\* the target written by a transport call is a target of the action of the
\* command the call was made for
CallFor(c, item) ==
    \/ c.call \in {"connect", "close"}
    \/ c.call = "write_coil" /\ HasCoil(item.action)
            /\ c.addr = get_coil(item.action).address[1]
    \/ c.call = "write_registers" /\ HasRegister(item.action)
            /\ c.addr = get_holding_register(item.action).address[1]

\* the transport call ends the write it belongs to: the connection is closed
\* or the call has raised
EndsWrite(c) == c.call = "close" \/ ~c.ok

\* C12: the commands of a batch are dispatched in array order and one at a
\* time: the transport calls of the handler belong to the commands 1, 2, ...
\* in this order, each writes the target of its own command, and a call
\* for the next command comes only after the write before it has ended.
C12_DispatchInArrayOrder ==
    Dispatched =>
        /\ last.dispatched = [i \in 1..Len(last.dispatched) |-> i]
        /\ Len(last.dispatched) <= Len(last.payload.items)
        /\ (last.exc = "none" /\ last.events = <<>> /\ on_message_callbacks # <<>>)
                => Len(last.dispatched) = Len(last.payload.items)
        /\ \A k \in 1..Len(last.calls) :
                /\ last.calls[k].cmd \in 1..Len(last.payload.items)
                /\ CallFor(last.calls[k], last.payload.items[last.calls[k].cmd])
        /\ \A k \in 1..(Len(last.calls) - 1) :
                /\ last.calls[k].cmd <= last.calls[k + 1].cmd
                /\ last.calls[k].cmd < last.calls[k + 1].cmd => EndsWrite(last.calls[k])

\* a batch of two commands for different targets has been written in order
C12_Witness ==
    /\ Dispatched
    /\ OneWriter
    /\ last.dispatched = <<1, 2>>
    /\ Len(last.payload.items) = 2
    /\ last.payload.items[1].action = "setpoint"
    /\ last.payload.items[2].action = "pump_1"
    /\ Len(Writes(last.calls)) = 2
    /\ Writes(last.calls)[1].call = "write_registers"
    /\ Writes(last.calls)[2].call = "write_coil"
\* C13: a payload that does not parse as structured data is discarded as a
\* whole: no command is dispatched, no transport call is made, and exactly
\* one error event is published, of category InvalidMessage.
C13_UnparseableBatchDiscarded ==
    (Handled /\ last.payload.form = "notjson")
    => /\ last.dispatched = <<>>
       /\ last.calls = <<>>
       /\ Len(last.events) = 1
       /\ last.events[1].category = "InvalidMessage"

\* the category the reader reports for an item that fails
CategoryOfItem(item) ==
    IF Unknown(item.action) THEN "UnknownCommand" ELSE "InvalidMessage"

\* C15: a well-formed batch with an item that fails is discarded with
\* exactly one error event: UnknownCommand if the first failing item in
\* array order has an action that is neither a coil nor a register,
\* InvalidMessage if its value cannot be typed for its target; the items
\* after it have no say.
C15_FirstFailingItemDecidesCategory ==
    (/\ Handled
     /\ WellFormed(last.payload)
     /\ \E i \in 1..Len(last.payload.items) : Fails(last.payload.items[i]))
    => /\ last.dispatched = <<>>
       /\ Len(last.events) = 1
       /\ last.events[1].category =
             CategoryOfItem(last.payload.items[FirstFailing(last.payload.items)])

\* C14: publishing an error never raises: whatever the state of the sink,
\* also when the connection to it fails, MqttWriter.publish returns normally.
C14_PublishNeverRaises ==
    Called("writer_publish") => last.exc = "none"

\* the range of the numbers a data type of one word represents
Representable(data_type, n) ==
    \/ data_type = "uint16" /\ n \in 0..65535
    \/ data_type = "int16" /\ n \in -32768..32767

OneWord(name) ==
    HasRegister(name) /\ get_holding_register(name).data_type \in {"uint16", "int16"}

\* C16: write_register with a number that fits the data type of the
\* register writes it and returns 1 (40000 to a uint16 register is written
\* as the word 40000); with a number outside the range of the data type
\* (40000 to an int16 register) it raises InvalidMessageError, publishes the
\* failure once and makes no transport call.
C16_RangeOfDataTypeDecides ==
    (/\ Called("write_register")
     /\ OneWord(last.name)
     /\ last.value.k = "int")
    => IF Representable(get_holding_register(last.name).data_type, last.value.n)
       THEN /\ last.exc # "InvalidMessageError"
            /\ TransportFate = "ok"
                    => /\ last.ret = 1
                       /\ last.exc = "none"
                       /\ last.events = <<>>
                       /\ Len(Writes(last.calls)) = 1
                       /\ Writes(last.calls)[1].call = "write_registers"
                       /\ Writes(last.calls)[1].addr =
                                get_holding_register(last.name).address[1]
                       /\ (last.name = "setpoint" /\ last.value.n = 40000)
                                => Writes(last.calls)[1].words = <<40000>>
       ELSE /\ last.exc = "InvalidMessageError"
            /\ Len(last.events) = 1
            /\ last.events[1].category = "InvalidMessage"
            /\ last.calls = <<>>
            /\ conn = last.conn0

\* 40000 has been refused for the int16 register
C16_Witness ==
    /\ Called("write_register")
    /\ last.name = "level"
    /\ last.value = PyInt(40000)
    /\ last.exc = "InvalidMessageError"

\* 40000 has been written to the uint16 register
C16_WitnessWritten ==
    /\ Called("write_register")
    /\ last.name = "setpoint"
    /\ last.value = PyInt(40000)
    /\ last.ret = 1

\* what write_coils does on a configured coil when the transport works: one
\* write of all the values at the address of the coil, and their number
\* returned
OneContiguousWrite ==
    (Called("write_coils") /\ HasCoil(last.name) /\ TransportFate = "ok")
    => /\ Len(Writes(last.calls)) = 1
       /\ Writes(last.calls)[1].call = "write_coils"
       /\ Writes(last.calls)[1].addr = get_coil(last.name).address[1]
       /\ Writes(last.calls)[1].bits = last.bits
       /\ last.ret = Len(last.bits)
       /\ last.exc = "none"

\* C17 as stated: one contiguous write of the given values at the base
\* address, the number of values returned, and 0 returned if and only if
\* the name has no coil target.
C17_ZeroIffNoCoilTarget ==
    /\ OneContiguousWrite
    /\ (Called("write_coils") /\ last.exc = "none")
            => (last.ret = 0 <=> ~HasCoil(last.name))

\* C17 (amended): one contiguous write of the given values at the base
\* address, the number of values returned, and 0 returned if and only if
\* the name has no coil target or the list of values is empty.
C17_ZeroIffNoTargetOrNoValues ==
    /\ OneContiguousWrite
    /\ (Called("write_coils") /\ last.exc = "none")
            => (last.ret = 0 <=> (~HasCoil(last.name) \/ last.bits = <<>>))

\* two values have been written to a coil
C17_Witness ==
    /\ Called("write_coils")
    /\ last.name = "pump_1"
    /\ last.bits = <<TRUE, FALSE>>
    /\ last.ret = 2
    /\ Len(Writes(last.calls)) = 1
\* the inverse of the encoding: the word order and the byte order are undone,
\* then the words are read as a number of the data type
UnorderedWords(memory_order, words) ==
    LET w1 == IF memory_order.word = "swapped" THEN Reverse(words) ELSE words
    IN  IF memory_order.byte = "little"
        THEN [i \in 1..Len(w1) |-> SwapBytes(w1[i])] ELSE w1

Signed16(w) == IF w >= 32768 THEN w - 65536 ELSE w

DecodeFloat(hi, lo) ==
    LET e == (hi % 32768) \div 128 - 127
        fraction == (hi % 128) * 65536 + lo
        a == 2^e + fraction \div 2^(23 - e)
    IN  CASE hi % 32768 = 0 /\ lo = 0 -> 0
          [] hi >= 32768 -> 0 - a
          [] OTHER -> a

Decode(data_type, memory_order, words) ==
    LET w == UnorderedWords(memory_order, words)
    IN  CASE data_type = "uint16" -> w[1]
          [] data_type = "int16" -> Signed16(w[1])
          [] data_type = "uint32" -> w[1] * 65536 + w[2]
          [] data_type = "int32" -> Signed16(w[1]) * 65536 + w[2]
          [] data_type = "float32" -> DecodeFloat(w[1], w[2])

Built == Called("build_register_payload") /\ last.exc = "none"

\* the words of the same value in another memory order
WordsIn(memory_order) == build(last.data_type, memory_order, last.value)

\* C18: for every data type, memory order and value of the type, the
\* words decode back to the value; there is one word per 16 bits and every
\* word is in 0..65535; little-endian byte order swaps the two bytes of each
\* word of the big-endian encoding; swapped word order reverses the words
\* of the natural order and changes nothing for a type of one word; -1 as
\* int16, big-endian, natural order is [0xFFFF], and 1.0 as float32 is
\* [0x3F80, 0x0000], [0x0000, 0x3F80] in swapped order.
C18_EncodingRoundTrip ==
    Built =>
        /\ Decode(last.data_type, last.memory_order, last.words) = last.value.n
        /\ Len(last.words) = Bits(last.data_type) \div 16
        /\ \A i \in 1..Len(last.words) : last.words[i] \in 0..65535
        /\ last.memory_order.byte = "little" =>
                \A i \in 1..Len(last.words) :
                    /\ last.words[i] % 256 =
                            WordsIn([last.memory_order EXCEPT !.byte = "big"])[i] \div 256
                    /\ last.words[i] \div 256 =
                            WordsIn([last.memory_order EXCEPT !.byte = "big"])[i] % 256
        /\ last.memory_order.word = "swapped" =>
                \A i \in 1..Len(last.words) :
                    last.words[i] =
                        WordsIn([last.memory_order EXCEPT !.word = "natural"])
                            [Len(last.words) + 1 - i]
        /\ (last.memory_order.word = "swapped" /\ Len(last.words) = 1) =>
                last.words = WordsIn([last.memory_order EXCEPT !.word = "natural"])
        /\ (last.data_type = "int16" /\ last.memory_order = BigNatural /\ last.value.n = -1)
                => last.words = <<65535>>
        /\ (last.data_type = "float32" /\ last.memory_order.byte = "big" /\ last.value.n = 1)
                => last.words = IF last.memory_order.word = "natural"
                                THEN <<16256, 0>> ELSE <<0, 16256>>

\* -70000 has been encoded as int32 with little-endian bytes and swapped words
C18_Witness ==
    /\ Built
    /\ last.data_type = "int32"
    /\ last.memory_order = [byte |-> "little", word |-> "swapped"]
    /\ last.value.n = -70000
    /\ last.words = <<37102, 65279>>
\* the connect half of C19: reason code 0 subscribes to every configured
\* topic, in order, and any other reason code subscribes to none
ConnectSubscribes ==
    Called("on_connect") =>
        last.subscribed = IF last.rc = 0 THEN last.topics ELSE <<>>

\* C19: on a connect callback with reason code 0 the client subscribes to
\* every configured topic and with another reason code to none, and every
\* inbound message is delivered to every registered callback, in the
\* order of registration.
C19_SubscribedAndDeliveredToAll ==
    /\ ConnectSubscribes
    /\ Called("client_on_message") => last.delivered = on_message_callbacks

\* the first item of the batch that lacks a field comes before any item that
\* fails validate() or transform()
LacksFieldFirst(items) ==
    \E i \in 1..Len(items) :
        /\ items[i].keys # "av"
        /\ \A j \in 1..(i - 1) : items[j].keys = "av" /\ ~Fails(items[j])

\* C20: a batch that parses but has an item without the action or the value
\* field is reported with exactly one error event, of category
\* InvalidMessage, and no command of the batch is dispatched.
C20_MissingFieldIsInvalidMessage ==
    (/\ Handled
     /\ TopicDecodes
     /\ last.payload.form = "batch"
     /\ LacksFieldFirst(last.payload.items))
    => /\ last.dispatched = <<>>
       /\ Len(last.events) = 1
       /\ last.events[1].category = "InvalidMessage"

\* what the handler does with such a batch: one event, of category
\* Unhandled, and nothing dispatched
MissingFieldIsUnhandled ==
    (/\ Handled
     /\ TopicDecodes
     /\ last.payload.form = "batch"
     /\ LacksFieldFirst(last.payload.items))
    => /\ last.dispatched = <<>>
       /\ last.calls = <<>>
       /\ last.events = <<[category |-> "Unhandled", cmd |-> 0]>>
\* write_command was called for a name that is a coil and a holding register
DualCommand == Called("write_command") /\ HasCoil(last.name) /\ HasRegister(last.name)

IsCoilWrite(c) == c.call = "write_coil"
IsRegisterWrite(c) == c.call = "write_registers"

\* the register write of the call fails: the transport fails, or the value
\* cannot be encoded for the data type of the register
RegisterWriteFails ==
    \/ last.fates[1][2] # "ok"
    \/ ~Fits(get_holding_register(last.name).data_type, last.value)

\* C21: write_command for a name that is both a coil and a holding
\* register is not atomic.  When the coil write fails, the register write is
\* never attempted and the exception is not UnknownCommandError.  When the
\* coil write succeeds and the register write fails, the call raises, and
\* the coil write has been made at the address of the coil with the value
\* of the command and no later call takes it back.
C21_DualWriteNotAtomic ==
    /\ (DualCommand /\ last.fates[1][1] # "ok")
        => /\ last.exc = "ModbusClientError"
           /\ SelectSeq(last.calls, IsRegisterWrite) = <<>>
           /\ \A k \in 1..Len(last.calls) :
                    last.calls[k].addr # get_holding_register(last.name).address[1]
    /\ (DualCommand /\ last.fates[1][1] = "ok" /\ RegisterWriteFails)
        => /\ last.exc \in {"ModbusClientError", "InvalidMessageError"}
           /\ Len(SelectSeq(last.calls, IsCoilWrite)) = 1
           /\ SelectSeq(last.calls, IsCoilWrite)[1].ok
           /\ SelectSeq(last.calls, IsCoilWrite)[1].addr = get_coil(last.name).address[1]
           /\ SelectSeq(last.calls, IsCoilWrite)[1].bit = PyBool(last.value)
           /\ IsCoilWrite(last.calls[2])
           /\ \A k \in 3..Len(last.calls) : ~last.calls[k].ok \/ ~IsWrite(last.calls[k])

\* the coil of "dual" has been written and the register write was refused by
\* the device
C21_Witness ==
    /\ DualCommand
    /\ last.name = "dual"
    /\ last.value = PyInt(5)
    /\ last.fates = <<<<"ok", "nak">>>>
    /\ last.exc = "ModbusClientError"
    /\ Len(SelectSeq(last.calls, IsCoilWrite)) = 1
    /\ Len(SelectSeq(last.calls, IsRegisterWrite)) = 1

\* the coil of "dual" has been written and the value cannot be encoded
C21_WitnessEncoding ==
    /\ DualCommand
    /\ last.value = PyStr
    /\ last.exc = "InvalidMessageError"
    /\ Len(SelectSeq(last.calls, IsCoilWrite)) = 1

\* the coil write of "dual" has failed
C21_WitnessCoilFails ==
    /\ DualCommand
    /\ last.fates = <<<<"refuse", "ok">>>>
    /\ last.exc = "ModbusClientError"
\* what the handler does when the topic of the message can be read: text
\* that does not parse is reported once as InvalidMessage, and a batch with a
\* failing item once under the category of its first failing item
ReportedWhenTopicDecodes ==
    /\ (Handled /\ TopicDecodes /\ last.payload.form = "notjson")
        => /\ last.dispatched = <<>>
           /\ last.events = <<[category |-> "InvalidMessage", cmd |-> 0]>>
    /\ (/\ Handled
        /\ TopicDecodes
        /\ WellFormed(last.payload)
        /\ \E i \in 1..Len(last.payload.items) : Fails(last.payload.items[i]))
        => /\ last.dispatched = <<>>
           /\ Len(last.events) = 1
           /\ last.events[1].category =
                 CategoryOfItem(last.payload.items[FirstFailing(last.payload.items)])

\* what the handler does when the topic cannot be read: it raises, and
\* nothing is examined, dispatched or published
UnreadableTopicRaises ==
    (Handled /\ ~TopicDecodes)
    => /\ last.exc = "UnboundLocalError"
       /\ last.examined = 0
       /\ last.dispatched = <<>>
       /\ last.calls = <<>>
       /\ last.events = <<>>

\* what write_to_modbus does with a failed write: nothing is published, the
\* exception is caught and the next command is dispatched
FailedWriteSwallowed ==
    (Dispatched /\ OneWriter)
    => /\ last.exc = "none"
       /\ last.events = <<>>
       /\ last.dispatched = [i \in 1..Len(last.payload.items) |-> i]
=============================================================================
